---- MODULE Spec2Model ----
(***************************************************************************)
(* Model of api/core/rag/datasource/vdb/chroma/chroma_vector.py: the       *)
(* Chroma adapter of the vector store contract (ChromaVector) with the     *)
(* Redis lock and existence cache that guard collection provisioning.      *)
(*                                                                         *)
(* Spec      : concurrent callers of ChromaVector.create, one step per     *)
(*             Redis or backend round trip, with the two Redis expiries    *)
(*             (lock timeout=20, cache ex=3600) as environment steps.      *)
(* SpecStore : one adapter used sequentially: add_texts, delete_by_ids,    *)
(*             text_exists, delete against the collection.                 *)
(* SpecSearch: search_by_vector on every collection state of the bounds.   *)
(*                                                                         *)
(* Numbers that are floats in the code (distances, scores, thresholds)     *)
(* are fixed-point integers here, One standing for 1.0.                    *)
(***************************************************************************)
EXTENDS Integers, Sequences, FiniteSets, TLC

\* ------------------------------------------------------------------ bounds
NumCallers == 2        \* concurrent callers of create
MaxId      == 2        \* caller-supplied doc ids are <<"doc", 1>> .. <<"doc", MaxId>>
MaxGen     == 1        \* ids the adapter may generate in a SpecStore run
MaxBatch   == 2        \* longest document sequence of one add_texts call
MaxTopK    == 2        \* largest top_k asked of search_by_vector

\* --------------------------------------------------------------- constants
DefaultTopK == 4       \* kwargs.get("top_k", 4)

Callers  == 1..NumCallers
Names    == {"ca", "cb"}                 \* collection names
One      == 10                           \* fixed point: the 1 of `1 - distance`
Embeddings == {0, 5, 25}                 \* one-dimensional vectors, fixed point
\* dataset.id of three datasets, as sequences of characters
DatasetIds == {<<"a", "-", "1">>, <<"b", "-", "2">>, <<"c", "-", "3">>}

VARIABLES
  redis,        \* key -> value held by redis_client (0: key absent)
  exists,       \* collection name -> the backend holds that collection
  collection,   \* collection name -> set of stored entries
  nextGen,      \* number of ids generated so far
  latest,       \* id -> the entry the most recent add_texts wrote for it (history)
  pc,           \* caller -> position inside create / create_collection
  self_name,    \* caller -> self._collection_name of its adapter
  arg,          \* caller -> create_collection's collection_name parameter
  texts,        \* caller -> the documents passed to create
  embs,         \* caller -> the embeddings passed to create
  uuids,        \* caller -> the ids add_texts assigned
  log,          \* caller -> what the call has done so far (history)
  elapsed,      \* the Redis expiries that have run out so far (history)
  op,           \* SpecStore: the operation that ran last and its arguments
  result,       \* SpecStore: what that operation returned
  dataset,      \* dataset id -> dataset.index_struct (<<>>: None)
  connections,  \* collection names whose HttpClient has contacted the backend
  resolved      \* dataset id -> names init_vector resolved, derivations (history)

vars == <<redis, exists, collection, nextGen, latest, pc, self_name, arg, texts, embs,
          uuids, log, elapsed, op, result, dataset, connections, resolved>>

\* the part of the state only the callers of Spec change
callerVars == <<redis, pc, self_name, arg, texts, embs, uuids, log, elapsed>>

\* the part of the state only ChromaVectorFactory changes
factoryVars == <<dataset, connections, resolved>>

\* ------------------------------------------------------- documents and ids
\* Document(page_content=..., metadata=...); metadata is an open mapping.
Doc(content, meta) == [page_content |-> content, metadata |-> meta]
Meta(id, did) == [doc_id |-> id, document_id |-> did]
MetaNoId(did) == [document_id |-> did]

HasDocId(d) == "doc_id" \in DOMAIN d.metadata

\* how many of the first i documents carry no id of their own
RECURSIVE Generated(_, _)
Generated(documents, i) ==
  IF i = 0 THEN 0
  ELSE Generated(documents, i - 1) + (IF HasDocId(documents[i]) THEN 0 ELSE 1)

\* ids are strings in the code: <<"doc", i>> is an id a caller supplied as
\* metadata["doc_id"], <<"uuid", k>> the k-th id the adapter generated
SuppliedIds == {<<"doc", i>> : i \in 1..MaxId}

\* BaseVector._get_uuids: the caller-supplied id when the metadata carries one,
\* otherwise a newly generated id
_get_uuids(documents, gen) ==
  [i \in 1..Len(documents) |->
     IF HasDocId(documents[i]) THEN documents[i].metadata.doc_id
     ELSE <<"uuid", gen + Generated(documents, i)>>]

Range(s) == {s[i] : i \in 1..Len(s)}
HasDuplicates(s) == \E i, j \in 1..Len(s) : i # j /\ s[i] = s[j]

\* ----------------------------------------------------------- the backend
\* collection.upsert(ids, documents, embeddings, metadatas): the entries written
Upserted(ids, docs, es, metas) ==
  {[id |-> ids[i], document |-> docs[i], embedding |-> es[i], metadata |-> metas[i]]
     : i \in 1..Len(ids)}

\* upsert that appends and never replaces
CollectionUpsertAppending(coll, ids, docs, es, metas) ==
  coll \cup Upserted(ids, docs, es, metas)

\* the collection after collection.upsert: an entry of the same id is replaced
CollectionUpsert(coll, ids, docs, es, metas) ==
  {e \in coll : e.id \notin Range(ids)} \cup Upserted(ids, docs, es, metas)

\* add_texts, lines 69-75, on the entries of self._collection_name
AddTextsResult(coll, documents, embeddings, gen) ==
  LET ids   == _get_uuids(documents, gen)
      ts    == [i \in 1..Len(documents) |-> documents[i].page_content]
      metas == [i \in 1..Len(documents) |-> documents[i].metadata]
  IN  CollectionUpsert(coll, ids, ts, embeddings, metas)

\* history: what an add_texts call handed over for each id it used
Handed(ids, documents, embeddings) ==
  [id \in Range(ids) |->
     LET i == CHOOSE j \in 1..Len(ids) : ids[j] = id
     IN  [id |-> id, document |-> documents[i].page_content,
          embedding |-> embeddings[i], metadata |-> documents[i].metadata]]

Remembered(old, new) ==
  [id \in DOMAIN old \cup DOMAIN new |-> IF id \in DOMAIN new THEN new[id] ELSE old[id]]

\* some sequence of the elements of a finite set
RECURSIVE SetToSeq(_)
SetToSeq(S) ==
  IF S = {} THEN <<>>
  ELSE LET x == CHOOSE y \in S : TRUE IN <<x>> \o SetToSeq(S \ {x})

\* collection.get(ids=...): a GetResult, a mapping that always has these keys;
\* the rows of the entries found are the values of ids, documents and metadatas
collection_get(coll, ids) ==
  LET found == SetToSeq({e \in coll : e.id \in Range(ids)})
  IN  [ids        |-> [i \in 1..Len(found) |-> found[i].id],
       embeddings |-> <<>>,
       documents  |-> [i \in 1..Len(found) |-> found[i].document],
       metadatas  |-> [i \in 1..Len(found) |-> found[i].metadata]]

\* len(response) of a mapping: the number of its keys
len(response) == Cardinality(DOMAIN response)

\* text_exists with the comparison turned round
text_exists_returns_empty(coll, id) ==
  LET response == collection_get(coll, <<id>>)
  IN  len(response) = 0

\* text_exists, lines 92-94: response = collection.get(ids=[id]);
\* return len(response) > 0
text_exists_returns(coll, id) ==
  LET response == collection_get(coll, <<id>>)
  IN  len(response) > 0

\* delete that takes only the first id of the list
CollectionDeleteFirst(coll, ids) == {e \in coll : e.id # ids[1]}

\* collection.delete(ids=ids): the entries left; ids not stored are ignored
CollectionDelete(coll, ids) == {e \in coll : e.id \notin Range(ids)}

\* ------------------------------------------------------------ Redis keys
\* f"vector_indexing_lock_{collection_name}" and f"vector_indexing_{name}"
LockName(collection_name) == <<"vector_indexing_lock_", collection_name>>
CacheKey(collection_name) == <<"vector_indexing_", collection_name>>
Keys == {LockName(n) : n \in Names} \cup {CacheKey(n) : n \in Names}

\* a cache key that leaves the collection name out
collection_exist_cache_key_shared(c) == CacheKey("ca")

\* the lock a caller's create_collection takes and the cache key it reads
lock_name(c) == LockName(arg[c])
collection_exist_cache_key(c) == CacheKey(self_name[c])

\* ---------------------------------------------- Spec: concurrent create()
\* the (texts, embeddings) pairs the callers pass to create
CreateInputs ==
  { <<<<>>, <<>>>>,
    <<<<Doc("x", Meta(<<"doc", 1>>, "d1"))>>, <<0>>>>,
    <<<<Doc("y", Meta(<<"doc", 1>>, "d1")), Doc("x", MetaNoId("d2"))>>, <<25, 5>>>> }

Init ==
  /\ redis = [k \in Keys |-> 0]
  /\ exists = [n \in Names |-> FALSE]
  /\ collection = [n \in Names |-> {}]
  /\ nextGen = 0
  /\ latest = <<>>
  /\ pc = [c \in Callers |-> "idle"]
  /\ self_name \in [Callers -> Names]
  /\ arg = [c \in Callers |-> "ca"]
  /\ texts = [c \in Callers |-> <<>>]
  /\ embs = [c \in Callers |-> <<>>]
  /\ uuids = [c \in Callers |-> <<>>]
  /\ log = [c \in Callers |-> {}]
  /\ elapsed = {}
  /\ op = [name |-> "none"]
  /\ result = [raised |-> FALSE]
  /\ dataset = [d \in DatasetIds |-> <<>>]
  /\ connections = {}
  /\ resolved = [d \in DatasetIds |-> [names |-> {}, derived |-> 0]]

Logged(c, e) == [log EXCEPT ![c] = @ \cup {e}]

\* create without the `if texts:` test of line 53
create_unconditional(c, ts, es) ==
  /\ pc[c] = "idle"
  /\ texts' = [texts EXCEPT ![c] = ts]
  /\ embs' = [embs EXCEPT ![c] = es]
  /\ arg' = [arg EXCEPT ![c] = self_name[c]]
  /\ pc' = [pc EXCEPT ![c] = "lock"]
  /\ log' = Logged(c, "create")
  /\ UNCHANGED <<redis, exists, collection, nextGen, latest, self_name, factoryVars, uuids,
                 elapsed, op, result>>

\* create, lines 52-57: nothing at all for an empty sequence, otherwise
\* create_collection(self._collection_name) and then add_texts
create(c, ts, es) ==
  /\ pc[c] = "idle"
  /\ texts' = [texts EXCEPT ![c] = ts]
  /\ embs' = [embs EXCEPT ![c] = es]
  /\ IF ts # <<>>
       THEN /\ arg' = [arg EXCEPT ![c] = self_name[c]]
            /\ pc' = [pc EXCEPT ![c] = "lock"]
            /\ log' = Logged(c, "create")
       ELSE /\ pc' = [pc EXCEPT ![c] = "done"]
            /\ log' = Logged(c, "create")
            /\ arg' = arg
  /\ UNCHANGED <<redis, exists, collection, nextGen, latest, self_name, factoryVars, uuids, elapsed,
                 op, result>>

\* lock_acquire with acquire(blocking=False) and its answer ignored: the block is
\* entered whether or not the key was free
lock_acquire_ignoring_busy(c) ==
  /\ pc[c] = "lock"
  /\ IF redis[lock_name(c)] = 0
       THEN /\ redis' = [redis EXCEPT ![lock_name(c)] = c]
            /\ log' = Logged(c, "lock")
       ELSE /\ redis' = redis
            /\ log' = log
  /\ pc' = [pc EXCEPT ![c] = "check"]
  /\ UNCHANGED <<exists, collection, nextGen, latest, self_name, factoryVars, arg, texts, embs,
                 uuids, elapsed, op, result>>

\* line 61, entering `with redis_client.lock(lock_name, timeout=20)`: Lock.acquire
\* with blocking=True and no blocking_timeout. The caller stays here until the key
\* is free (SET NX), then owns it.
lock_acquire(c) ==
  /\ pc[c] = "lock"
  /\ redis[lock_name(c)] = 0
  /\ redis' = [redis EXCEPT ![lock_name(c)] = c]
  /\ pc' = [pc EXCEPT ![c] = "check"]
  /\ log' = Logged(c, "lock")
  /\ UNCHANGED <<exists, collection, nextGen, latest, self_name, factoryVars, arg, texts, embs, uuids,
                 elapsed, op, result>>

\* line 61: twenty seconds go by with the caller still blocked in Lock.acquire
\* (the key is held by someone else); no blocking_timeout is given, so it keeps waiting
lock_wait(c) ==
  /\ pc[c] = "lock"
  /\ redis[lock_name(c)] \notin {0, c}
  /\ "waited_20s" \notin log[c]
  /\ log' = Logged(c, "waited_20s")
  /\ UNCHANGED <<redis, exists, collection, nextGen, latest, pc, self_name, factoryVars, arg, texts,
                 embs, uuids, elapsed, op, result>>

\* line 61, timeout=20: the lock key is written with a 20 s expiry, never extended;
\* Redis drops it when the holder is still inside the block after 20 s
lock_expire(n) ==
  /\ redis[LockName(n)] # 0
  /\ redis' = [redis EXCEPT ![LockName(n)] = 0]
  /\ elapsed' = elapsed \cup {"lock"}
  /\ UNCHANGED <<exists, collection, nextGen, latest, pc, self_name, factoryVars, arg, texts, embs,
                 uuids, log, op, result>>

\* lines 62-64 without the return of line 64
cache_get_ignoring(c) ==
  /\ pc[c] = "check"
  /\ pc' = [pc EXCEPT ![c] = "backend"]
  /\ log' = Logged(c, IF redis[collection_exist_cache_key(c)] # 0 THEN "cache_hit"
                                                                  ELSE "cache_miss")
  /\ UNCHANGED <<redis, exists, collection, nextGen, latest, self_name, factoryVars, arg, texts,
                 embs, uuids, elapsed, op, result>>

\* lines 62-64: redis_client.get(collection_exist_cache_key); return when set
cache_get(c) ==
  /\ pc[c] = "check"
  /\ IF redis[collection_exist_cache_key(c)] # 0
       THEN /\ pc' = [pc EXCEPT ![c] = "exit"]
            /\ log' = Logged(c, "cache_hit")
       ELSE /\ pc' = [pc EXCEPT ![c] = "backend"]
            /\ log' = Logged(c, "cache_miss")
  /\ UNCHANGED <<redis, exists, collection, nextGen, latest, self_name, factoryVars, arg, texts, embs,
                 uuids, elapsed, op, result>>

\* line 65 inside a try/except that goes on to line 66 after a failed call
get_or_create_collection_swallowing(c) ==
  /\ pc[c] = "backend"
  /\ \E ok \in BOOLEAN :
       /\ exists' = IF ok THEN [exists EXCEPT ![arg[c]] = TRUE] ELSE exists
       /\ pc' = [pc EXCEPT ![c] = "cacheset"]
       /\ log' = Logged(c, "backend")
  /\ UNCHANGED <<redis, collection, nextGen, latest, self_name, factoryVars, arg, texts, embs,
                 uuids, elapsed, op, result>>

\* line 65: self._client.get_or_create_collection(collection_name); the call may
\* raise (backend unavailable), which leaves the with block
get_or_create_collection(c) ==
  /\ pc[c] = "backend"
  /\ \E ok \in BOOLEAN :
       IF ok
         THEN /\ exists' = [exists EXCEPT ![arg[c]] = TRUE]
              /\ pc' = [pc EXCEPT ![c] = "cacheset"]
              /\ log' = Logged(c, "backend")
         ELSE /\ exists' = exists
              /\ pc' = [pc EXCEPT ![c] = "exit"]
              /\ log' = [log EXCEPT ![c] = @ \cup {"backend", "raised"}]
  /\ UNCHANGED <<redis, collection, nextGen, latest, self_name, factoryVars, arg, texts, embs, uuids,
                 elapsed, op, result>>

\* line 66: redis_client.set(collection_exist_cache_key, 1, ex=3600); may raise
cache_set(c) ==
  /\ pc[c] = "cacheset"
  /\ \E ok \in BOOLEAN :
       IF ok
         THEN /\ redis' = [redis EXCEPT ![collection_exist_cache_key(c)] = 1]
              /\ log' = Logged(c, "cache_set")
         ELSE /\ redis' = redis
              /\ log' = Logged(c, "raised")
  /\ pc' = [pc EXCEPT ![c] = "exit"]
  /\ UNCHANGED <<exists, collection, nextGen, latest, self_name, factoryVars, arg, texts, embs, uuids,
                 elapsed, op, result>>

\* line 66, ex=3600: the existence-cache entry runs out
cache_expire(n) ==
  /\ redis[CacheKey(n)] # 0
  /\ redis' = [redis EXCEPT ![CacheKey(n)] = 0]
  /\ elapsed' = elapsed \cup {"cache"}
  /\ UNCHANGED <<exists, collection, nextGen, latest, pc, self_name, factoryVars, arg, texts, embs,
                 uuids, log, op, result>>

\* leaving the block without deleting the key, which then stays until it runs out
lock_release_keeping_key(c) ==
  /\ pc[c] = "exit"
  /\ pc' = [pc EXCEPT ![c] = IF "raised" \in log[c] THEN "failed" ELSE "add"]
  /\ log' = Logged(c, "released")
  /\ UNCHANGED <<redis, exists, collection, nextGen, latest, self_name, factoryVars, arg, texts,
                 embs, uuids, elapsed, op, result>>

\* lock_release as acquire() ... release() without try/finally: an exception in
\* the block skips the release
lock_release_unless_raised(c) ==
  /\ pc[c] = "exit"
  /\ IF "raised" \in log[c]
       THEN /\ redis' = redis
            /\ pc' = [pc EXCEPT ![c] = "failed"]
            /\ log' = log
       ELSE IF redis[lock_name(c)] = c
       THEN /\ redis' = [redis EXCEPT ![lock_name(c)] = 0]
            /\ pc' = [pc EXCEPT ![c] = "add"]
            /\ log' = Logged(c, "released")
       ELSE /\ redis' = redis
            /\ pc' = [pc EXCEPT ![c] = "failed"]
            /\ log' = Logged(c, "not_owned")
  /\ UNCHANGED <<exists, collection, nextGen, latest, self_name, factoryVars, arg, texts, embs,
                 uuids, elapsed, op, result>>

\* leaving the with block of line 61 on any path: Lock.release deletes the key when
\* it still carries this caller's token and raises LockNotOwnedError otherwise
\* (the key ran out, or ran out and was taken by another caller)
lock_release(c) ==
  /\ pc[c] = "exit"
  /\ IF redis[lock_name(c)] = c
       THEN /\ redis' = [redis EXCEPT ![lock_name(c)] = 0]
            /\ pc' = [pc EXCEPT ![c] = IF "raised" \in log[c] THEN "failed" ELSE "add"]
            /\ log' = Logged(c, "released")
       ELSE /\ redis' = redis
            /\ pc' = [pc EXCEPT ![c] = "failed"]
            /\ log' = Logged(c, "not_owned")
  /\ UNCHANGED <<exists, collection, nextGen, latest, self_name, factoryVars, arg, texts, embs, uuids,
                 elapsed, op, result>>

\* line 57: add_texts(texts, embeddings) once create_collection has returned.
\* collection.upsert raises on a repeated id in one call, and the backend may fail.
create_add_texts(c) ==
  /\ pc[c] = "add"
  /\ LET ids == _get_uuids(texts[c], nextGen)
         n   == self_name[c]
     IN \E ok \in BOOLEAN :
          IF ok /\ ~HasDuplicates(ids)
            THEN /\ exists' = [exists EXCEPT ![n] = TRUE]
                 /\ collection' = [collection EXCEPT ![n] =
                                     AddTextsResult(@, texts[c], embs[c], nextGen)]
                 /\ nextGen' = nextGen + Generated(texts[c], Len(texts[c]))
                 /\ latest' = Remembered(latest, Handed(ids, texts[c], embs[c]))
                 /\ uuids' = [uuids EXCEPT ![c] = ids]
                 /\ pc' = [pc EXCEPT ![c] = "done"]
                 /\ log' = Logged(c, "upsert")
            ELSE /\ pc' = [pc EXCEPT ![c] = "failed"]
                 /\ log' = Logged(c, "raised")
                 /\ UNCHANGED <<exists, collection, nextGen, latest, uuids>>
  /\ UNCHANGED <<redis, self_name, factoryVars, arg, texts, embs, elapsed, op, result>>

\* text_exists(id), lines 91-94, called by the caller whose create has completed,
\* for one of the ids its add_texts assigned
text_exists_after_create(c) ==
  /\ pc[c] = "done"
  /\ log[c] \cap {"exists_true", "exists_false"} = {}
  /\ \E i \in 1..Len(uuids[c]) :
       /\ exists' = [exists EXCEPT ![self_name[c]] = TRUE]
       /\ log' = Logged(c, IF text_exists_returns(collection[self_name[c]], uuids[c][i])
                             THEN "exists_true" ELSE "exists_false")
  /\ UNCHANGED <<redis, collection, nextGen, latest, pc, self_name, factoryVars, arg, texts, embs,
                 uuids, elapsed, op, result>>

Next ==
  \/ \E c \in Callers : \E inp \in CreateInputs : create(c, inp[1], inp[2])
  \/ \E c \in Callers : lock_acquire(c)
  \/ \E c \in Callers : lock_wait(c)
  \/ \E n \in Names : lock_expire(n)
  \/ \E c \in Callers : cache_get(c)
  \/ \E c \in Callers : get_or_create_collection(c)
  \/ \E c \in Callers : cache_set(c)
  \/ \E n \in Names : cache_expire(n)
  \/ \E c \in Callers : lock_release(c)
  \/ \E c \in Callers : create_add_texts(c)
  \/ \E c \in Callers : text_exists_after_create(c)

Spec == Init /\ [][Next]_vars

\* the create_collection calls of Spec alone: every caller calls create with the
\* same non-empty texts, and what follows create_collection is left out
NextFair ==
  \/ \E c \in Callers :
       create(c, <<Doc("x", Meta(<<"doc", 1>>, "d1"))>>, <<0>>)
  \/ \E c \in Callers : lock_acquire(c)
  \/ \E c \in Callers : lock_wait(c)
  \/ \E n \in Names : lock_expire(n)
  \/ \E c \in Callers : cache_get(c)
  \/ \E c \in Callers : get_or_create_collection(c)
  \/ \E c \in Callers : cache_set(c)
  \/ \E n \in Names : cache_expire(n)
  \/ \E c \in Callers : lock_release(c)

\* a fair scheduler and a Redis and a backend that answer: a caller polling for
\* the lock gets it when the key stays free, and a caller inside the with block
\* takes its next step (an answer may still be an error). Nothing is asked of
\* the expiries.
Fairness ==
  \A c \in Callers :
    /\ WF_vars(lock_acquire(c))
    /\ WF_vars(cache_get(c))
    /\ WF_vars(get_or_create_collection(c))
    /\ WF_vars(cache_set(c))
    /\ WF_vars(lock_release(c))

SpecFair == Init /\ [][NextFair]_vars /\ Fairness

\* ------------------------------------- SpecStore: one adapter, sequential
\* self._collection_name of the adapter
StoreName == "ca"

\* the (document, embedding) pairs handed to add_texts: two versions of id 1, one
\* document for each other supplied id, and a document that carries no id
StoreItems ==
  { <<Doc("x", Meta(<<"doc", 1>>, "d1")), 0>>,
    <<Doc("y", Meta(<<"doc", 1>>, "d1")), 5>>,
    <<Doc("y", MetaNoId("d1")), 5>> }
  \cup { <<Doc("x", Meta(<<"doc", i>>, "d2")), 25>> : i \in 2..MaxId }

SeqsUpTo(S, n) == UNION {[1..k -> S] : k \in 0..n}

\* every id a run can meet, and <<"doc", 0>>, which is never added
KnownIds == SuppliedIds \cup {<<"uuid", k>> : k \in 1..MaxGen} \cup {<<"doc", 0>>}
\* id lists without repetition, one for each set of at most MaxBatch ids
IdLists == {SetToSeq(S) : S \in {T \in SUBSET KnownIds : Cardinality(T) <= MaxBatch}}

StoredIds(coll) == {e.id : e \in coll}

InitStore ==
  /\ Init
  /\ self_name = [c \in Callers |-> StoreName]

\* add_texts, lines 68-75, with a non-empty batch (create never passes an empty
\* one); collection.upsert raises on an id repeated within the call
add_texts(items) ==
  LET documents  == [i \in 1..Len(items) |-> items[i][1]]
      embeddings == [i \in 1..Len(items) |-> items[i][2]]
      ids        == _get_uuids(documents, nextGen)
      coll       == collection[StoreName]
  IN  /\ items # <<>>
      /\ nextGen + Generated(documents, Len(documents)) <= MaxGen
      /\ exists' = [exists EXCEPT ![StoreName] = TRUE]
      /\ IF HasDuplicates(ids)
           THEN /\ op' = [name |-> "add_texts", replaced |-> {}]
                /\ result' = [raised |-> TRUE]
                /\ UNCHANGED <<collection, nextGen, latest>>
           ELSE /\ collection' = [collection EXCEPT ![StoreName] =
                                    AddTextsResult(coll, documents, embeddings, nextGen)]
                /\ nextGen' = nextGen + Generated(documents, Len(documents))
                /\ latest' = Remembered(latest, Handed(ids, documents, embeddings))
                /\ op' = [name |-> "add_texts",
                          replaced |-> {e.id : e \in {x \in coll : x.id \in Range(ids)
                                          /\ x # Handed(ids, documents, embeddings)[x.id]}}]
                /\ result' = [raised |-> FALSE]
      /\ UNCHANGED <<callerVars, factoryVars>>

\* delete_by_ids, lines 85-89: nothing for an empty list, otherwise
\* get_or_create_collection and collection.delete(ids=ids)
delete_by_ids(ids) ==
  /\ IF ids = <<>>
       THEN UNCHANGED <<exists, collection>>
       ELSE /\ exists' = [exists EXCEPT ![StoreName] = TRUE]
            /\ collection' = [collection EXCEPT ![StoreName] = CollectionDelete(@, ids)]
  /\ op' = [name |-> "delete_by_ids", ids |-> ids]
  /\ result' = [raised |-> FALSE]
  /\ UNCHANGED <<nextGen, latest>>
  /\ UNCHANGED <<callerVars, factoryVars>>

\* the (key, value) pairs handed to delete_by_metadata_field: a document_id that
\* entries carry, one that none carries, a doc_id, and a key no metadata has
MetadataFilters ==
  {<<"document_id", v>> : v \in {"d1", "d2", "d9"}}
    \cup {<<"doc_id", <<"doc", i>> >> : i \in 0..1}
    \cup {<<"source", "d1">>}

\* where={key: {"$eq": value}}: the entry has the key and its value is equal
Matches(e, key, value) ==
  key \in DOMAIN e.metadata /\ e.metadata[key] = value

\* a where clause that also takes the entries that lack the key
CollectionDeleteWhereOrMissing(coll, key, value) ==
  {e \in coll : key \in DOMAIN e.metadata /\ e.metadata[key] # value}

\* the collection after collection.delete(where={key: {"$eq": value}})
CollectionDeleteWhere(coll, key, value) ==
  {e \in coll : ~Matches(e, key, value)}

\* delete_by_metadata_field, lines 77-80: get_or_create_collection and
\* collection.delete(where=...)
delete_by_metadata_field(key, value) ==
  /\ exists' = [exists EXCEPT ![StoreName] = TRUE]
  /\ collection' = [collection EXCEPT ![StoreName] = CollectionDeleteWhere(@, key, value)]
  /\ op' = [name |-> "delete_by_metadata_field", key |-> key, value |-> value]
  /\ result' = [raised |-> FALSE]
  /\ UNCHANGED <<nextGen, latest>>
  /\ UNCHANGED <<callerVars, factoryVars>>

\* text_exists, lines 91-94
text_exists(id) ==
  /\ exists' = [exists EXCEPT ![StoreName] = TRUE]
  /\ op' = [name |-> "text_exists", id |-> id]
  /\ result' = [raised |-> FALSE, value |-> text_exists_returns(collection[StoreName], id)]
  /\ UNCHANGED <<collection, nextGen, latest>>
  /\ UNCHANGED <<callerVars, factoryVars>>

\* a delete that also removes the existence-cache entry of the collection
delete_clearing_cache ==
  /\ IF exists[StoreName]
       THEN /\ exists' = [exists EXCEPT ![StoreName] = FALSE]
            /\ collection' = [collection EXCEPT ![StoreName] = {}]
            /\ result' = [raised |-> FALSE]
       ELSE /\ UNCHANGED <<exists, collection>>
            /\ result' = [raised |-> TRUE]
  /\ redis' = [redis EXCEPT ![CacheKey(StoreName)] = 0]
  /\ op' = [name |-> "delete", issued |-> {c \in Callers : pc[c] # "idle"}]
  /\ UNCHANGED <<nextGen, latest, pc, self_name, arg, texts, embs, uuids, log, elapsed>>
  /\ UNCHANGED factoryVars

\* delete, lines 82-83: self._client.delete_collection(name), which raises when
\* the backend has no such collection; op.issued notes the callers whose create
\* had begun by then (history)
delete ==
  /\ IF exists[StoreName]
       THEN /\ exists' = [exists EXCEPT ![StoreName] = FALSE]
            /\ collection' = [collection EXCEPT ![StoreName] = {}]
            /\ result' = [raised |-> FALSE]
       ELSE /\ UNCHANGED <<exists, collection>>
            /\ result' = [raised |-> TRUE]
  /\ op' = [name |-> "delete", issued |-> {c \in Callers : pc[c] # "idle"}]
  /\ UNCHANGED <<nextGen, latest>>
  /\ UNCHANGED <<callerVars, factoryVars>>

NextStore ==
  \/ \E items \in SeqsUpTo(StoreItems, MaxBatch) : add_texts(items)
  \/ \E ids \in IdLists : delete_by_ids(ids)
  \/ \E id \in KnownIds : text_exists(id)
  \/ \E f \in MetadataFilters : delete_by_metadata_field(f[1], f[2])
  \/ delete

SpecStore == InitStore /\ [][NextStore]_vars

\* ---------------------- SpecDrop: delete() among create_collection calls
\* the create_collection calls of adapters of one collection name, with
\* delete() of that collection at any moment
NextDrop ==
  \/ \E c \in Callers :
       create(c, <<Doc("x", Meta(<<"doc", 1>>, "d1"))>>, <<0>>)
  \/ \E c \in Callers : lock_acquire(c)
  \/ \E c \in Callers : lock_wait(c)
  \/ \E n \in Names : lock_expire(n)
  \/ \E c \in Callers : cache_get(c)
  \/ \E c \in Callers : get_or_create_collection(c)
  \/ \E c \in Callers : cache_set(c)
  \/ \E n \in Names : cache_expire(n)
  \/ \E c \in Callers : lock_release(c)
  \/ delete

SpecDrop == InitStore /\ [][NextDrop]_vars

\* ------------------------------------ SpecSearch: search_by_vector alone
\* the backend's distance between the query vector and an embedding
Distance(q, e) == IF q >= e THEN q - e ELSE e - q

\* the rows collection.query(query_embeddings=q, n_results=n, where=...) may
\* answer with: the n nearest candidates (all of them when there are fewer),
\* nearest first; candidates at the same distance come in any order
QueryRows(coll, q, n, document_ids_filter) ==
  LET cands == IF document_ids_filter # <<>>
                 THEN {e \in coll : e.metadata.document_id \in Range(document_ids_filter)}
                 ELSE coll
      k     == IF Cardinality(cands) < n THEN Cardinality(cands) ELSE n
  IN  { r \in [1..k -> cands] :
          /\ \A i, j \in 1..k : i < j =>
                (r[i] # r[j] /\ Distance(q, r[i].embedding) <= Distance(q, r[j].embedding))
          /\ \A e \in cands \ Range(r) :
                \A i \in 1..k : Distance(q, r[i].embedding) <= Distance(q, e.embedding) }

\* the QueryResult for those rows: parallel lists, one inner list per query vector
QueryResult(rows, q) ==
  [ids       |-> << [i \in 1..Len(rows) |-> rows[i].id] >>,
   documents |-> << [i \in 1..Len(rows) |-> rows[i].document] >>,
   metadatas |-> << [i \in 1..Len(rows) |-> rows[i].metadata] >>,
   distances |-> << [i \in 1..Len(rows) |-> Distance(q, rows[i].embedding)] >>]

\* line 123 with >= for >
RetainedAtThreshold(score, score_threshold) == score >= score_threshold

\* line 123: if score > score_threshold
Retained(score, score_threshold) == score > score_threshold

\* line 124: metadata["score"] = score on the copy made at line 121
WithScore(metadata, score) ==
  [k \in DOMAIN metadata \cup {"score"} |-> IF k = "score" THEN score ELSE metadata[k]]

\* lines 118-129: the documents kept from the first `upto` rows, in row order
RECURSIVE Collected(_, _, _, _, _)
Collected(documents, metadatas, distances, score_threshold, upto) ==
  IF upto = 0 THEN <<>>
  ELSE LET rest  == Collected(documents, metadatas, distances, score_threshold, upto - 1)
           score == One - distances[upto]
       IN  IF Retained(score, score_threshold)
             THEN Append(rest, Doc(documents[upto], WithScore(metadatas[upto], score)))
             ELSE rest

\* line 131: the sort key
SortKey(x) == x.metadata.score

\* a descending sort that puts d in front of the documents of equal key
InsertDescendingBeforeTies(sorted_docs, d) ==
  LET before == {i \in 1..Len(sorted_docs) : SortKey(sorted_docs[i]) > SortKey(d)}
      n      == IF before = {} THEN 0
                ELSE CHOOSE i \in before : \A j \in before : j <= i
  IN  SubSeq(sorted_docs, 1, n) \o <<d>> \o SubSeq(sorted_docs, n + 1, Len(sorted_docs))

\* sorted(..., reverse=True) is stable: d goes behind every document whose key is
\* not smaller
InsertDescending(sorted_docs, d) ==
  LET before == {i \in 1..Len(sorted_docs) : SortKey(sorted_docs[i]) >= SortKey(d)}
      n      == IF before = {} THEN 0
                ELSE CHOOSE i \in before : \A j \in before : j <= i
  IN  SubSeq(sorted_docs, 1, n) \o <<d>> \o SubSeq(sorted_docs, n + 1, Len(sorted_docs))

\* line 131: docs = sorted(docs, key=score, reverse=True)
RECURSIVE SortedDescending(_)
SortedDescending(docs) ==
  IF docs = <<>> THEN <<>>
  ELSE InsertDescending(SortedDescending(SubSeq(docs, 1, Len(docs) - 1)), docs[Len(docs)])

\* line 107 with a missing score_threshold taken as no threshold at all
ScoreThresholdUnset(given) == IF given = <<>> THEN 0 - 10 * One ELSE given[1]

\* line 107: float(kwargs.get("score_threshold") or 0.0); <<>> is None or not given
ScoreThreshold(given) == IF given = <<>> \/ given[1] = 0 THEN 0 ELSE given[1]

\* lines 102 and 106: kwargs.get("top_k", 4); <<>> is not given
NResults(given) == IF given = <<>> THEN DefaultTopK ELSE given[1]

\* the fields of a QueryResult that search_by_vector reads
ResultFields == {"ids", "documents", "metadatas", "distances"}

\* the backend's answer with some fields left out: None, or an empty list
Blanked(results, blank) ==
  [f \in DOMAIN results |-> IF f \in blank THEN <<>> ELSE results[f]]

\* which fields an answer may lack: none, any one of them, or all
BlankSets == {{}, ResultFields} \cup {{f} : f \in ResultFields}

\* line 110 testing results["ids"] alone
NoDataIdsOnly(results) == results.ids = <<>>

\* line 110: not results["ids"] or not results["documents"] or
\* not results["metadatas"] or not results["distances"]
NoData(results) ==
  results.ids = <<>> \/ results.documents = <<>> \/ results.metadatas = <<>>
    \/ results.distances = <<>>

\* lines 113-121 raise when they are reached with a field that is None or empty,
\* or with fewer documents, metadatas or distances than ids
Raises(results) ==
  /\ ~NoData(results)
  /\ \/ \E f \in ResultFields : results[f] = <<>>
     \/ \E f \in ResultFields : Len(results[f][1]) < Len(results.ids[1])

\* lines 107-132: what search_by_vector returns for the backend's answer
search_by_vector_returns(results, score_threshold) ==
  IF NoData(results)
    THEN <<>>
    ELSE LET ids       == results.ids[1]
             documents == results.documents[1]
             metadatas == results.metadatas[1]
             distances == results.distances[1]
         IN  SortedDescending(
               Collected(documents, metadatas, distances, score_threshold, Len(ids)))

\* the query vectors: the stored embeddings and one at distance 1.0 of another
QueryVectors == Embeddings \cup {10}

\* the keyword arguments of a search
TopKs == {<<>>} \cup {<<k>> : k \in 1..MaxTopK}
ScoreThresholds == {<<>>, <<0>>, <<5>>, <<0 - 10>>, <<0 - 20>>}
DocumentIdsFilters == {<<>>, <<"d1">>, <<"d2">>}

\* every entry add_texts can have written, and every collection made of them
AllEntries ==
  UNION { { [id |-> id, document |-> it[1].page_content, embedding |-> it[2],
             metadata |-> it[1].metadata]
            : id \in IF HasDocId(it[1]) THEN {it[1].metadata.doc_id}
                     ELSE {<<"uuid", k>> : k \in 1..MaxGen} }
          : it \in StoreItems }
CollectionStates ==
  {S \in SUBSET AllEntries : \A e1, e2 \in S : e1.id = e2.id => e1 = e2}

InitSearch ==
  /\ redis = [k \in Keys |-> 0]
  /\ exists \in {[n \in Names |-> n = StoreName /\ b] : b \in BOOLEAN}
  /\ \E S \in CollectionStates :
       /\ collection = [n \in Names |-> IF n = StoreName THEN S ELSE {}]
       /\ latest = [id \in StoredIds(S) |-> CHOOSE e \in S : e.id = id]
       /\ exists[StoreName] \/ S = {}
  /\ nextGen = MaxGen
  /\ pc = [c \in Callers |-> "idle"]
  /\ self_name = [c \in Callers |-> StoreName]
  /\ arg = [c \in Callers |-> "ca"]
  /\ texts = [c \in Callers |-> <<>>]
  /\ embs = [c \in Callers |-> <<>>]
  /\ uuids = [c \in Callers |-> <<>>]
  /\ log = [c \in Callers |-> {}]
  /\ elapsed = {}
  /\ op = [name |-> "none"]
  /\ result = [raised |-> FALSE]
  /\ dataset = [d \in DatasetIds |-> <<>>]
  /\ connections = {}
  /\ resolved = [d \in DatasetIds |-> [names |-> {}, derived |-> 0]]

\* search_by_vector, lines 96-132
search_by_vector(query_vector, top_k, score_threshold, document_ids_filter) ==
  /\ exists' = [exists EXCEPT ![StoreName] = TRUE]
  /\ \E rows \in QueryRows(collection[StoreName], query_vector, NResults(top_k),
                            document_ids_filter), blank \in BlankSets :
       LET results == Blanked(QueryResult(rows, query_vector), blank)
       IN  /\ op' = [name |-> "search_by_vector", top_k |-> top_k,
                     n_results |-> NResults(top_k),
                     score_threshold |-> score_threshold, results |-> results]
           /\ result' = IF Raises(results)
                           THEN [raised |-> TRUE]
                           ELSE [raised |-> FALSE,
                                 value |-> search_by_vector_returns(
                                             results, ScoreThreshold(score_threshold))]
  /\ UNCHANGED <<collection, nextGen, latest>>
  /\ UNCHANGED <<callerVars, factoryVars>>

\* the query texts of search_by_full_text: two that stored documents contain
\* and one that none contains
Queries == {"x", "y", "z"}

\* a full-text search that fetches the collection first, as the other
\* operations do
search_by_full_text_fetching(query) ==
  /\ exists' = [exists EXCEPT ![StoreName] = TRUE]
  /\ op' = [name |-> "search_by_full_text", query |-> query]
  /\ result' = [raised |-> FALSE, value |-> <<>>]
  /\ UNCHANGED <<collection, nextGen, latest>>
  /\ UNCHANGED <<callerVars, factoryVars>>

\* search_by_full_text, lines 134-136: return []
search_by_full_text(query) ==
  /\ op' = [name |-> "search_by_full_text", query |-> query]
  /\ result' = [raised |-> FALSE, value |-> <<>>]
  /\ UNCHANGED <<exists, collection, nextGen, latest>>
  /\ UNCHANGED <<callerVars, factoryVars>>

\* one search on the collection drawn by InitSearch: a search leaves the entries
\* as they are, so a second one would meet nothing new
NextSearch ==
  /\ op.name = "none"
  /\ \/ \E q \in QueryVectors, k \in TopKs, t \in ScoreThresholds,
            f \in DocumentIdsFilters : search_by_vector(q, k, t, f)
     \/ \E query \in Queries : search_by_full_text(query)

SpecSearch == InitSearch /\ [][NextSearch]_vars

\* ------------------------------- SpecFactory: ChromaVectorFactory alone
\* str.lower() on the characters names are made of
LowerChar(ch) ==
  CASE ch = "V" -> "v"
    [] ch = "N" -> "n"
    [] ch = "O" -> "o"
    [] OTHER    -> ch
lower(str) == [i \in DOMAIN str |-> LowerChar(str[i])]

\* Dataset.gen_collection_name_by_id: "Vector_index_" + id with every "-"
\* turned into "_" + "_Node", shortened here to "V" + ... + "N"
gen_collection_name_by_id(dataset_id) ==
  <<"V">> \o [i \in DOMAIN dataset_id |-> IF dataset_id[i] = "-" THEN "_"
                                                               ELSE dataset_id[i]]
          \o <<"N">>

\* json.dumps of {"type": ..., "vector_store": {"class_prefix": ...}} as a flat
\* sequence of tokens, and the json.loads that reads it back
json_dumps(index_struct_dict) ==
  <<"type", index_struct_dict.type, "vector_store.class_prefix">>
    \o index_struct_dict.vector_store.class_prefix
json_loads(str) ==
  [type |-> str[2], vector_store |-> [class_prefix |-> SubSeq(str, 4, Len(str))]]

\* Dataset.index_struct_dict: the mapping, or None when index_struct is unset
index_struct_dict(index_struct) ==
  IF index_struct = <<>> THEN <<>> ELSE <<json_loads(index_struct[1])>>

\* an index structure another vector store's factory left on the dataset, with
\* a class_prefix in mixed case
OtherIndexStruct ==
  <<json_dumps([type |-> "weaviate", vector_store |-> [class_prefix |-> <<"O", "l", "d", "N">>]])>>

InitFactory ==
  /\ redis = [k \in Keys |-> 0]
  /\ exists = [n \in Names |-> FALSE]
  /\ collection = [n \in Names |-> {}]
  /\ nextGen = 0
  /\ latest = <<>>
  /\ pc = [c \in Callers |-> "idle"]
  /\ self_name = [c \in Callers |-> StoreName]
  /\ arg = [c \in Callers |-> "ca"]
  /\ texts = [c \in Callers |-> <<>>]
  /\ embs = [c \in Callers |-> <<>>]
  /\ uuids = [c \in Callers |-> <<>>]
  /\ log = [c \in Callers |-> {}]
  /\ elapsed = {}
  /\ op = [name |-> "none"]
  /\ result = [raised |-> FALSE]
  /\ dataset \in [DatasetIds -> {<<>>, OtherIndexStruct}]
  /\ connections = {}
  /\ resolved = [d \in DatasetIds |-> [names |-> {}, derived |-> 0]]

\* the history kept of one init_vector call; derived stops counting at 2
Resolved(d, collection_name, derives) ==
  [resolved EXCEPT ![d] = [names   |-> @.names \cup {collection_name},
                           derived |-> IF derives /\ @.derived < 2 THEN @.derived + 1
                                                                  ELSE @.derived]]

\* ChromaVector.__init__, lines 44-47: chromadb.HttpClient(...) asks the server
\* for the tenant and the database while it is constructed, and raises when the
\* server does not answer
ChromaVector(collection_name) ==
  /\ connections' = connections \cup {collection_name}
  /\ \/ result' = [raised |-> FALSE, value |-> collection_name]
     \/ result' = [raised |-> TRUE]

\* init_vector that derives and persists a name whatever the dataset carries
init_vector_rederiving(d) ==
  LET collection_name == lower(gen_collection_name_by_id(d))
  IN  /\ dataset' = [dataset EXCEPT ![d] =
                       <<json_dumps([type |-> "chroma",
                                     vector_store |-> [class_prefix |-> collection_name]])>>]
      /\ resolved' = Resolved(d, collection_name, TRUE)
      /\ op' = [name |-> "init_vector", dataset |-> d, derives |-> TRUE,
                collection_name |-> collection_name]
      /\ ChromaVector(collection_name)
      /\ UNCHANGED <<exists, collection, nextGen, latest>>
      /\ UNCHANGED callerVars

\* ChromaVectorFactory.init_vector, lines 140-160
init_vector(d) ==
  LET isd == index_struct_dict(dataset[d])
      collection_name ==
        IF isd # <<>> THEN lower(isd[1].vector_store.class_prefix)
                      ELSE lower(gen_collection_name_by_id(d))
  IN  /\ IF isd # <<>>
           THEN UNCHANGED dataset
           ELSE dataset' = [dataset EXCEPT ![d] =
                  <<json_dumps([type |-> "chroma",
                                vector_store |-> [class_prefix |-> collection_name]])>>]
      /\ resolved' = Resolved(d, collection_name, isd = <<>>)
      /\ op' = [name |-> "init_vector", dataset |-> d, derives |-> isd = <<>>,
                collection_name |-> collection_name]
      /\ ChromaVector(collection_name)
      /\ UNCHANGED <<exists, collection, nextGen, latest>>
      /\ UNCHANGED callerVars

NextFactory == \E d \in DatasetIds : init_vector(d)

SpecFactory == InitFactory /\ [][NextFactory]_vars

\* ------------------------------------------------- claims on create (Spec)
\* create_collection has been entered by c / has ended for c
Invoked(c) == "create" \in log[c] /\ texts[c] # <<>>
Ended(c) == pc[c] \in {"add", "done", "failed"}
\* c is between the cache check and the cache write of lines 62-66
InCriticalSection(c) == pc[c] \in {"check", "backend", "cacheset"}

\* C1: when N callers have invoked create_collection for the same collection name,
\* starting with no cache entry, and all have ended (with no call raising inside
\* the block and the cache entry not run out), exactly one of them issued the
\* backend get_or_create_collection call and the cache entry was set exactly once.
C1_ExactlyOneBackendCall ==
  \A n \in Names :
    LET S == {c \in Callers : Invoked(c) /\ arg[c] = n}
    IN  ( /\ S # {}
          /\ \A c \in S : Ended(c) /\ "raised" \notin log[c]
          /\ "cache" \notin elapsed )
        => /\ Cardinality({c \in S : "backend" \in log[c]}) = 1
           /\ Cardinality({c \in S : "cache_set" \in log[c]}) = 1

\* C2: at no time are two callers for the same collection name both inside the
\* critical section of create_collection (cache check, backend call, cache write).
C2_MutualExclusion ==
  \A c1, c2 \in Callers :
    (c1 # c2 /\ InCriticalSection(c1) /\ InCriticalSection(c2)) => arg[c1] # arg[c2]

\* C3: once create_collection has ended for a caller, on whichever path, the lock
\* key does not carry that caller's token.
C3_LockReleasedOnExit ==
  \A c \in Callers : (Invoked(c) /\ Ended(c)) => redis[lock_name(c)] # c

\* C3 witness: a caller's backend call raised, its call has ended, and a later
\* caller holds the lock of the same collection.
C3_Witness ==
  \E c, d \in Callers :
    /\ c # d /\ arg[c] = arg[d]
    /\ pc[c] = "failed" /\ {"backend", "raised", "released"} \subseteq log[c]
    /\ redis[lock_name(d)] = d

C6_CreatedTextExists ==
  \A c \in Callers :
    (pc[c] = "done" /\ texts[c] # <<>> /\ log[c] \cap {"exists_true", "exists_false"} # {})
      => ("exists_true" \in log[c] /\ "exists_false" \notin log[c])

\* C6 witness: a create of two documents completed and text_exists was asked.
C6_Witness ==
  \E c \in Callers :
    pc[c] = "done" /\ Len(texts[c]) = 2 /\ Len(uuids[c]) = 2 /\ "exists_true" \in log[c]

\* C7: a create with no documents is over at once, having taken no lock, read or
\* written no cache entry, made no backend call and upserted nothing; a create
\* with documents reaches add_texts only after create_collection has returned
\* (lock released, after a cache hit or a cache write).
C7_EmptyNoOpThenOrder ==
  \A c \in Callers :
    /\ ("create" \in log[c] /\ texts[c] = <<>>) =>
          (pc[c] = "done" /\ log[c] = {"create"} /\ uuids[c] = <<>>
             /\ \A k \in Keys : redis[k] # c \/ k \notin {LockName(n) : n \in Names})
    /\ (pc[c] = "add" \/ "upsert" \in log[c]) =>
          ("released" \in log[c] /\ log[c] \cap {"cache_hit", "cache_set"} # {})

\* C7 witness: one caller's empty create is over and another caller's add_texts
\* has run after its create_collection.
C7_Witness ==
  \E c, d \in Callers :
    /\ "create" \in log[c] /\ texts[c] = <<>> /\ pc[c] = "done"
    /\ "upsert" \in log[d] /\ "released" \in log[d]

\* ------------------------------------------ claims on the store (SpecStore)
\* C5: text_exists(id) returns true exactly when an entry with that id is stored.
C5_TextExistsIsProbe ==
  op.name = "text_exists" =>
    (result.value <=> op.id \in StoredIds(collection[StoreName]))

\* C8: the collection holds at most one entry per id, and each entry is the one
\* the most recent add_texts call that used its id handed over (text, embedding
\* and metadata); so the number of entries is the number of ids stored.
C8_UpsertLatestWins ==
  LET coll == collection[StoreName]
  IN  /\ \A e1, e2 \in coll : e1.id = e2.id => e1 = e2
      /\ \A e \in coll : e.id \in DOMAIN latest /\ latest[e.id] = e
      /\ Cardinality(coll) = Cardinality(StoredIds(coll))

\* C8 witness: an add_texts call has just re-used a stored id with other content,
\* next to an entry it did not touch.
C8_Witness ==
  /\ op.name = "add_texts" /\ ~result.raised
  /\ op.replaced # {}
  /\ StoredIds(collection[StoreName]) \ op.replaced # {}

\* C9 as stated: delete_by_ids with an empty list, or with ids none of which is
\* stored, does not raise, leaves the entries as they were and neither creates
\* nor removes a collection at the backend; with stored ids it removes exactly
\* the entries of those ids.
C9_DeleteByIdsFrame ==
  [][ op'.name = "delete_by_ids" =>
        /\ ~result'.raised
        /\ collection'[StoreName] =
             {e \in collection[StoreName] : e.id \notin Range(op'.ids)}
        /\ (Range(op'.ids) \cap StoredIds(collection[StoreName]) = {} =>
              (collection' = collection /\ exists' = exists)) ]_vars

\* C9 amended: delete_by_ids does not raise and removes exactly the entries whose
\* id is in the list, so an empty list or ids not stored leave the entries as
\* they were; an empty list touches nothing at the backend, a non-empty one goes
\* through get_or_create_collection, after which the backend has the collection.
C9_DeleteByIdsEntries ==
  [][ op'.name = "delete_by_ids" =>
        /\ ~result'.raised
        /\ collection'[StoreName] =
             {e \in collection[StoreName] : e.id \notin Range(op'.ids)}
        /\ (Range(op'.ids) \cap StoredIds(collection[StoreName]) = {} =>
              collection' = collection)
        /\ (op'.ids = <<>> => exists' = exists)
        /\ (op'.ids # <<>> => exists'[StoreName]) ]_vars

\* C9 witness: delete_by_ids has just run with one stored and one unknown id
\* and other entries are still there.
C9_Witness ==
  /\ op.name = "delete_by_ids"
  /\ <<"doc", 0>> \in Range(op.ids) /\ <<"doc", 1>> \in Range(op.ids)
  /\ <<"doc", 1>> \in DOMAIN latest
  /\ collection[StoreName] # {}

\* ---------------------------------------- claims on search (SpecSearch)
\* C10: search_by_vector returns at most top_k documents, each with a
\* metadata score strictly greater than score_threshold, in non-increasing
\* order of score.
C10_SearchBounded ==
  op.name = "search_by_vector" =>
    LET docs == result.value
    IN  /\ op.top_k # <<>> => Len(docs) <= op.top_k[1]
        /\ op.score_threshold # <<>> =>
              \A i \in 1..Len(docs) : docs[i].metadata.score > op.score_threshold[1]
        /\ \A i, j \in 1..Len(docs) :
              i < j => docs[i].metadata.score >= docs[j].metadata.score

\* C10 witness: a search with top_k = 2 and score_threshold = 0 on three entries
\* returned two documents of different score.
C10_Witness ==
  /\ op.name = "search_by_vector"
  /\ op.top_k = <<2>> /\ op.score_threshold = <<0>>
  /\ Cardinality(collection[StoreName]) = 3
  /\ Len(result.value) = 2
  /\ result.value[1].metadata.score > result.value[2].metadata.score

\* C11: when the backend's answer lacks ids, documents, metadatas or distances
\* (None or an empty list), or holds no rows at all, search_by_vector returns
\* the empty sequence and does not raise.
C11_NoDataReturnsEmpty ==
  (op.name = "search_by_vector"
     /\ \E f \in ResultFields : op.results[f] = <<>> \/ op.results[f] = << <<>> >>)
  => (~result.raised /\ result.value = <<>>)

\* C11 witness: the collection has entries, the backend's answer has ids and
\* documents for them but no distances, and the search returned normally.
C11_Witness ==
  /\ op.name = "search_by_vector"
  /\ op.results.distances = <<>>
  /\ op.results.ids # <<>> /\ Len(op.results.ids[1]) = 2
  /\ ~result.raised

C16_FullTextEmpty ==
  [][ op'.name = "search_by_full_text" =>
        /\ ~result'.raised
        /\ result'.value = <<>>
        /\ UNCHANGED <<exists, collection, redis, connections>> ]_vars

\* C16 witness: search_by_full_text("x") has run on a collection that holds an
\* entry whose text is "x".
C16_Witness ==
  /\ op.name = "search_by_full_text" /\ op.query = "x"
  /\ \E e \in collection[StoreName] : e.document = "x"
  /\ result.value = <<>>

\* C19: search_by_vector returns exactly the reference result. With score =
\* 1 - distance for each candidate of the backend's answer, the candidates kept
\* are those of score > score_threshold (a score equal to the threshold is
\* dropped); each kept candidate appears once, with its page content, its
\* metadata keys unchanged and the score added; a candidate stands before
\* another when its score is greater, or equal and it came first in the answer.
C19_SearchIsReference ==
  (op.name = "search_by_vector" /\ ~result.raised) =>
    LET r         == op.results
        threshold == ScoreThreshold(op.score_threshold)
        n         == IF \E f \in ResultFields : r[f] = <<>> THEN 0 ELSE Len(r.ids[1])
        score(i)  == One - r.distances[1][i]
        kept      == {i \in 1..n : score(i) > threshold}
        rank(i)   == 1 + Cardinality({j \in kept :
                           score(j) > score(i) \/ (score(j) = score(i) /\ j < i)})
        docs      == result.value
    IN  /\ Len(docs) = Cardinality(kept)
        /\ \A i \in kept :
              LET d == docs[rank(i)]
              IN  /\ d.page_content = r.documents[1][i]
                  /\ DOMAIN d.metadata = DOMAIN r.metadatas[1][i] \cup {"score"}
                  /\ d.metadata.score = score(i)
                  /\ \A k \in DOMAIN r.metadatas[1][i] : d.metadata[k] = r.metadatas[1][i][k]

\* C19 witness: the backend answered with three candidates, first the entry
\* without doc_id and the entry of id 1 at the same distance 0, then one whose
\* score -1.0 equals the threshold; the search returned the two tied documents
\* in the backend's order and left the third out.
C19_Witness ==
  /\ op.name = "search_by_vector" /\ op.score_threshold = <<0 - 10>>
  /\ op.results.ids = << << <<"uuid", 1>>, <<"doc", 1>>, <<"doc", 2>> >> >>
  /\ op.results.distances = << <<0, 0, 20>> >>
  /\ Len(result.value) = 2
  /\ "doc_id" \notin DOMAIN result.value[1].metadata
  /\ result.value[2].metadata.doc_id = <<"doc", 1>>
  /\ result.value[1].metadata.score = One /\ result.value[2].metadata.score = One

\* --------------------------------------- claims on create, continued (Spec)
\* C14: inside a create call the lock name and the cache key are those of the
\* adapter's own collection name; a caller waits for the lock only while the
\* lock of its own collection is held by another caller, and skips the backend
\* call only when the cache entry of its own collection is present.
C14_CollectionsIndependent ==
  [][ \A c \in Callers :
        /\ pc'[c] \notin {"idle", "done"} =>
              /\ lock_name(c)' = LockName(self_name[c])
              /\ collection_exist_cache_key(c)' = CacheKey(arg'[c])
        /\ ("waited_20s" \in log'[c] /\ "waited_20s" \notin log[c]) =>
              redis[LockName(self_name[c])] \notin {0, c}
        /\ ("cache_hit" \in log'[c] /\ "cache_hit" \notin log[c]) =>
              redis[CacheKey(self_name[c])] # 0 ]_vars

\* C14 witness: caller 1 holds the lock of "ca" with the cache entry of "ca"
\* written, while caller 2, creating "cb", has taken its lock without waiting,
\* missed the cache and is at the backend call.
C14_Witness ==
  /\ self_name[1] = "ca" /\ self_name[2] = "cb"
  /\ pc[1] = "exit" /\ redis[LockName("ca")] = 1 /\ redis[CacheKey("ca")] # 0
  /\ pc[2] = "backend" /\ redis[LockName("cb")] = 2
  /\ "waited_20s" \notin log[2] /\ "cache_miss" \in log[2]

\* C17: whenever the cache entry of a collection name is present, the backend
\* holds that collection and some create call of that name has made the backend
\* call, seen it succeed and then written the entry; the entry is written only
\* by a caller that is past a successful backend call of the same with block;
\* and a caller whose backend call fails leaves the block without writing it.
C17_CacheImpliesProvisioned ==
  [][ /\ \A n \in Names :
           redis'[CacheKey(n)] # 0 =>
             /\ exists'[n]
             /\ \E c \in Callers :
                  /\ self_name[c] = n
                  /\ {"lock", "cache_miss", "backend", "cache_set"} \subseteq log'[c]
      /\ \A n \in Names :
           (redis[CacheKey(n)] = 0 /\ redis'[CacheKey(n)] # 0) =>
             \E c \in Callers :
               /\ self_name[c] = n /\ pc[c] = "cacheset" /\ pc'[c] = "exit"
               /\ "backend" \in log[c] /\ exists[n]
      /\ \A c \in Callers :
           (pc[c] = "backend" /\ "raised" \in log'[c]) =>
             (redis' = redis /\ pc'[c] = "exit" /\ "cache_set" \notin log'[c]) ]_vars

\* C17 witness: two create calls of "ca" and no expiry; the backend call of
\* caller 2 failed and that call wrote no cache entry, the backend call of
\* caller 1 succeeded and the cache entry it wrote is present.
C17_Witness ==
  /\ self_name[1] = "ca" /\ self_name[2] = "ca" /\ elapsed = {}
  /\ pc[2] = "failed" /\ {"backend", "raised"} \subseteq log[2] /\ "cache_set" \notin log[2]
  /\ "cache_set" \in log[1]
  /\ redis[CacheKey("ca")] # 0 /\ exists["ca"]

\* C18: a create_collection that finds the cache entry present inside the lock
\* goes straight to the end of the with block: the step changes nothing in
\* Redis or at the backend, the call never makes the backend call nor writes
\* the cache entry, and once it is out of the block it no longer owns the lock.
C18_CacheHitReturns ==
  [][ \A c \in Callers :
        /\ ("cache_hit" \in log'[c] /\ "cache_hit" \notin log[c]) =>
              /\ redis[collection_exist_cache_key(c)] # 0
              /\ redis' = redis /\ exists' = exists
              /\ pc'[c] = "exit"
        /\ "cache_hit" \in log'[c] =>
              /\ log'[c] \cap {"cache_miss", "backend", "cache_set"} = {}
              /\ pc'[c] \in {"exit", "add", "done", "failed"}
              /\ pc'[c] # "exit" => redis'[lock_name(c)'] # c ]_vars

\* C18 witness: caller 2 found the cache entry of "ca" that caller 1 had
\* written, has left the block and released the lock; the entry is still there.
C18_Witness ==
  /\ self_name[1] = "ca" /\ self_name[2] = "ca"
  /\ "cache_set" \in log[1]
  /\ {"cache_hit", "released"} \subseteq log[2] /\ pc[2] = "add"
  /\ redis[LockName("ca")] = 0 /\ redis[CacheKey("ca")] # 0

\* C20: under SpecFair every create_collection call that has started ends, by
\* returning or by raising: no caller stays at the lock, or inside the block,
\* for ever.
C20_CreateCollectionTerminates ==
  \A c \in Callers : (pc[c] = "lock") ~> (pc[c] \in {"add", "failed"})

\* C20 witness: caller 1 held the lock and its backend call failed; caller 2,
\* of the same collection name, was kept waiting for twenty seconds and more,
\* then got the lock and its create_collection returned.
C20_Witness ==
  /\ self_name[1] = self_name[2]
  /\ pc[1] = "failed" /\ {"backend", "raised", "released"} \subseteq log[1]
  /\ pc[2] = "add" /\ {"waited_20s", "lock", "released"} \subseteq log[2]
  /\ elapsed = {}

\* C22: a search whose score_threshold is not given, is None or is 0 returns
\* exactly the candidates of the backend's answer whose score 1 - distance is
\* greater than 0, so none at distance 1 or more; and a search without top_k
\* asks the backend for 4 results.
C22_Defaults ==
  (op.name = "search_by_vector" /\ ~result.raised) =>
    /\ op.top_k = <<>> => op.n_results = 4
    /\ (op.score_threshold \in {<<>>, <<0>>}
          /\ \A f \in ResultFields : op.results[f] # <<>>) =>
         LET distances == op.results.distances[1]
         IN  /\ \A i \in 1..Len(result.value) : result.value[i].metadata.score > 0
             /\ Len(result.value)
                  = Cardinality({i \in 1..Len(distances) : distances[i] < One})

\* C22 witness: a search without top_k and without score_threshold, whose
\* candidates are at distances 0.5, 1.0 and 1.5, returned the first alone.
C22_Witness ==
  /\ op.name = "search_by_vector"
  /\ op.top_k = <<>> /\ op.score_threshold = <<>>
  /\ op.results.distances = << <<5, One, 15>> >>
  /\ Len(result.value) = 1 /\ result.value[1].metadata.score = 5

\* --------------------------------------------- claims on delete (SpecDrop)
\* C21: a delete() that finds the collection removes it from the backend with
\* its entries and does not raise; no delete() changes anything in Redis, so
\* the cache entry and the lock key are what they were; and a create_collection
\* that then finds the cache entry present, the backend having lost the
\* collection, leaves the block without a backend call: the collection is
\* still absent after that step.
C21_DeleteKeepsCache ==
  [][ /\ ( /\ op'.name = "delete"
           /\ (op' # op \/ result' # result \/ (exists[StoreName] /\ ~exists'[StoreName])) )
        => /\ redis' = redis
           /\ ~exists'[StoreName] /\ collection'[StoreName] = {}
           /\ result'.raised = ~exists[StoreName]
      /\ \A c \in Callers :
           ( /\ pc[c] = "check" /\ pc'[c] # "check"
             /\ redis[CacheKey(StoreName)] # 0 /\ ~exists[StoreName] )
           => /\ pc'[c] = "exit" /\ "backend" \notin log'[c]
              /\ exists' = exists /\ redis' = redis ]_vars

\* C21 witness: caller 1 provisioned the collection and wrote the cache entry,
\* delete() then dropped the collection before caller 2 had called create;
\* caller 2 found the cache entry and returned from create_collection with no
\* backend call, and the backend still has no collection.
C21_Witness ==
  /\ op.name = "delete" /\ ~result.raised /\ op.issued = {1}
  /\ "cache_set" \in log[1]
  /\ pc[2] = "add" /\ "cache_hit" \in log[2] /\ "backend" \notin log[2]
  /\ ~exists[StoreName] /\ redis[CacheKey(StoreName)] # 0

\* --------------------------------------- claims on the factory (SpecFactory)
\* C13: init_vector on a dataset without an index structure derives a name from
\* the dataset id and persists it as class_prefix; an init_vector on a dataset
\* that carries an index structure leaves the structure as it is; every
\* init_vector of one dataset resolves to the same collection name, and a name
\* is derived at most once per dataset.
C13_NameStable ==
  [][ op'.name = "init_vector" =>
        LET d == op'.dataset
        IN  /\ dataset[d] # <<>> => dataset' = dataset
            /\ dataset[d] = <<>> =>
                  /\ dataset'[d] # <<>>
                  /\ json_loads(dataset'[d][1]).vector_store.class_prefix
                       = op'.collection_name
            /\ resolved'[d].names = {op'.collection_name}
            /\ resolved'[d].derived <= 1 ]_vars

\* C13 witness: a dataset started without an index structure, a name was derived
\* for it once, and the last init_vector read the persisted structure back.
C13_Witness ==
  /\ op.name = "init_vector" /\ ~op.derives
  /\ resolved[op.dataset].derived = 1
  /\ op.collection_name = <<"v", "a", "_", "1", "n">>
  /\ ~result.raised /\ result.value = op.collection_name

\* C15 as stated: an init_vector call makes no connection to the backend and
\* no backend call, and changes nothing but the index structure of its dataset,
\* and that only when it was absent.
C15_ConstructionOffline ==
  [][ op'.name = "init_vector" =>
        /\ connections' = connections
        /\ UNCHANGED <<redis, exists, collection>>
        /\ \A d \in DatasetIds :
              dataset'[d] # dataset[d] => (d = op'.dataset /\ dataset[d] = <<>>) ]_vars

====
